---- MODULE Spec2Model ----
(***************************************************************************)
(* Terrain-Data-Extractor, src/app.py.                                     *)
(*                                                                         *)
(* Two specifications share this module.                                   *)
(*                                                                         *)
(*   Spec        the upload() request handler as run by the Flask server:  *)
(*               worker threads each execute upload() step by step         *)
(*               (save, the five stages, zip + file removal, rmdir +       *)
(*               send_file) against the one scratch directory that         *)
(*               create_temp_dir() returns.  File contents are abstract:   *)
(*               the kind of data, the run that produced the bytes and the *)
(*               runs whose uploads the bytes derive from.                 *)
(*                                                                         *)
(*   SpecRaster  the numeric stages transform_to_feet and raster_to_points *)
(*               applied to every raster of a bounded family.  Cell values *)
(*               are fixed-point numbers with five decimals.               *)
(***************************************************************************)
EXTENDS Integers, Sequences, FiniteSets, TLC

(***************************************************************************)
(* Bounds.                                                                 *)
(***************************************************************************)
MaxRuns == 2

Threads == {"w1", "w2"}

RunIds == 1..MaxRuns

(***************************************************************************)
(* File names inside the scratch directory.  The names of the uploads are  *)
(* chosen by the client (dem_file.filename, kml_file.filename); the        *)
(* intermediate names are fixed by the stages.                             *)
(***************************************************************************)
TempDirName == "terrain_processing_temp"

DemNames == {"dem.tif", "tmp_feet.tif"}

KmlNames == {"boundary.kml"}

IntermediateFiles ==
    {"tmp_clip.tif", "tmp_feet.tif", "tmp_contours.shp", "tmp_contours.dxf",
     "tmp_points.csv"}

FileNames == DemNames \cup KmlNames \cup IntermediateFiles

StageNames ==
    <<"clip_raster", "transform_to_feet", "generate_contours",
      "convert_shapefile_to_dxf", "raster_to_points">>

\* The stage that produces each intermediate file.
Producer(f) ==
    CASE f = "tmp_clip.tif"     -> "clip_raster"
      [] f = "tmp_feet.tif"     -> "transform_to_feet"
      [] f = "tmp_contours.shp" -> "generate_contours"
      [] f = "tmp_contours.dxf" -> "convert_shapefile_to_dxf"
      [] f = "tmp_points.csv"   -> "raster_to_points"

(***************************************************************************)
(* Bytes.  kind: what the bytes are; writer: the run that produced them;   *)
(* origin: the runs whose uploaded inputs they were computed from.         *)
(***************************************************************************)
Absent == [kind |-> "absent", writer |-> 0, origin |-> {}]

Bytes(k, r, o) == [kind |-> k, writer |-> r, origin |-> o]

RasterKinds == {"dem", "clip", "feet"}

IsRaster(c) == c.kind \in RasterKinds

VARIABLES
    fs,          \* file name -> bytes, Absent when there is no such file
    dirExists,   \* whether the scratch directory exists
    nextRun,     \* number of the next request
    pc,          \* thread -> position inside upload()
    run,         \* thread -> number of the request it serves (0: none yet)
    frame,       \* thread -> the local variables of upload()
    response,    \* thread -> what the request returned
    executed,    \* thread -> the stages entered by the current run, in order
    toolFailed,  \* thread -> stages whose external tool returned non-zero
    writes,      \* thread -> file -> stages of the current run that wrote it
    overlapped,  \* thread -> another run was in flight during the current run
    raster_in,   \* SpecRaster: the raster stored in tmp_clip.tif
    raster_feet, \* SpecRaster: the raster stored in tmp_feet.tif
    points_csv,  \* SpecRaster: the lines of tmp_points.csv
    rstage       \* SpecRaster: stages applied so far

ovars ==
    <<fs, dirExists, nextRun, pc, run, frame, response, executed, toolFailed,
      writes, overlapped>>

rvars == <<raster_in, raster_feet, points_csv, rstage>>

vars == <<ovars, rvars>>

(***************************************************************************)
(* upload(): locals and helpers.                                           *)
(***************************************************************************)
create_temp_dir == TempDirName

EmptyFrame ==
    [temp_dir |-> "", dem_path |-> "", kml_path |-> "",
     clipped_dem_data |-> Absent, clipped_dem_feet_data |-> Absent,
     contour_shp_data |-> Absent, dxf_data |-> Absent, csv_data |-> Absent,
     zip_buffer |-> <<>>]

NoResponse == [status |-> "none", bundle |-> <<>>]

ErrorResponse == [status |-> "error", bundle |-> <<>>]

NoWrites == [f \in IntermediateFiles |-> <<>>]

Active(t) == pc[t] \notin {"idle", "done", "failed"}

\* ZipEntries with the DXF export left out of the archive.
ZipEntries_without_dxf(f) ==
    << [stem |-> "clipped_dem", ext |-> "tif", data |-> f.clipped_dem_data],
       [stem |-> "clipped_dem_feet", ext |-> "tif",
        data |-> f.clipped_dem_feet_data],
       [stem |-> "contours-shape-file", ext |-> "shp",
        data |-> f.contour_shp_data],
       [stem |-> "pvsyst_shading_file", ext |-> "csv", data |-> f.csv_data] >>

\* The five zipf.writestr calls, in order.
ZipEntries(f) ==
    << [stem |-> "clipped_dem", ext |-> "tif", data |-> f.clipped_dem_data],
       [stem |-> "clipped_dem_feet", ext |-> "tif",
        data |-> f.clipped_dem_feet_data],
       [stem |-> "contours-shape-file", ext |-> "shp",
        data |-> f.contour_shp_data],
       [stem |-> "contours", ext |-> "dxf", data |-> f.dxf_data],
       [stem |-> "pvsyst_shading_file", ext |-> "csv", data |-> f.csv_data] >>

\* An exception leaves upload(): nothing after the raising statement runs,
\* the cleanup included, and the client gets an error response.
Raise(t) ==
    /\ pc' = [pc EXCEPT ![t] = "failed"]
    /\ response' = [response EXCEPT ![t] = ErrorResponse]

Enter(t, stage) == executed' = [executed EXCEPT ![t] = Append(@, stage)]

Wrote(t, f, stage) == [writes EXCEPT ![t][f] = Append(@, stage)]

(***************************************************************************)
(* Init: the server has started, no request has arrived, the scratch       *)
(* directory does not exist.                                               *)
(***************************************************************************)
RasterIdle ==
    /\ raster_in = <<>>
    /\ raster_feet = <<>>
    /\ points_csv = <<>>
    /\ rstage = "unused"

OrchestrationIdle ==
    /\ fs = [f \in FileNames |-> Absent]
    /\ dirExists = FALSE
    /\ nextRun = 1
    /\ pc = [t \in Threads |-> "idle"]
    /\ run = [t \in Threads |-> 0]
    /\ frame = [t \in Threads |-> EmptyFrame]
    /\ response = [t \in Threads |-> NoResponse]
    /\ executed = [t \in Threads |-> <<>>]
    /\ toolFailed = [t \in Threads |-> {}]
    /\ writes = [t \in Threads |-> NoWrites]
    /\ overlapped = [t \in Threads |-> FALSE]

Init == OrchestrationIdle /\ RasterIdle

(***************************************************************************)
(* upload(), lines 131-139: a request arrives with two files; the scratch  *)
(* directory is created if missing and both files are saved into it under  *)
(* the names the client gave.                                              *)
(***************************************************************************)
Save(t, dn, kn) ==
    /\ pc[t] \in {"idle", "done", "failed"}
    /\ nextRun <= MaxRuns
    /\ run' = [run EXCEPT ![t] = nextRun]
    /\ nextRun' = nextRun + 1
    /\ dirExists' = TRUE
    /\ fs' = [fs EXCEPT ![dn] = Bytes("dem", nextRun, {nextRun}),
                        ![kn] = Bytes("kml", nextRun, {nextRun})]
    /\ frame' = [frame EXCEPT ![t] =
                    [EmptyFrame EXCEPT !.temp_dir = create_temp_dir,
                                       !.dem_path = dn, !.kml_path = kn]]
    /\ pc' = [pc EXCEPT ![t] = "saved"]
    /\ response' = [response EXCEPT ![t] = NoResponse]
    /\ executed' = [executed EXCEPT ![t] = <<>>]
    /\ toolFailed' = [toolFailed EXCEPT ![t] = {}]
    /\ writes' = [writes EXCEPT ![t] = NoWrites]
    /\ overlapped' = [u \in Threads |->
                        IF u = t THEN \E v \in Threads \ {t} : Active(v)
                        ELSE IF Active(u) THEN TRUE ELSE overlapped[u]]
    /\ UNCHANGED rvars

(***************************************************************************)
(* clip_raster, lines 15-23.  subprocess.run is called without check=True: *)
(* a non-zero status of gdalwarp raises nothing.  gdalwarp can succeed     *)
(* only if both inputs are there; it may fail for any reason.              *)
(***************************************************************************)
ClipRaster(t) ==
    /\ pc[t] = "saved"
    /\ \E status \in {0, 1} :
        LET f   == frame[t]
            dem == fs[f.dem_path]
            kml == fs[f.kml_path]
            fs1 == IF status = 0
                   THEN [fs EXCEPT !["tmp_clip.tif"] =
                            Bytes("clip", run[t], dem.origin \cup kml.origin)]
                   ELSE fs
        IN  /\ status = 0 => (IsRaster(dem) /\ kml.kind = "kml")
            /\ fs' = fs1
            /\ dirExists' = TRUE
            /\ toolFailed' = IF status = 0 THEN toolFailed
                             ELSE [toolFailed EXCEPT ![t] = @ \cup {"clip_raster"}]
            /\ writes' = IF status = 0
                         THEN Wrote(t, "tmp_clip.tif", "clip_raster")
                         ELSE writes
            /\ Enter(t, "clip_raster")
            /\ IF fs1["tmp_clip.tif"] = Absent
               THEN Raise(t) /\ UNCHANGED frame
               ELSE /\ frame' = [frame EXCEPT ![t].clipped_dem_data =
                                    fs1["tmp_clip.tif"]]
                    /\ pc' = [pc EXCEPT ![t] = "clipped"]
                    /\ UNCHANGED response
    /\ UNCHANGED <<nextRun, run, overlapped, rvars>>

(***************************************************************************)
(* transform_to_feet, lines 25-61.  The stage first writes the bytes it    *)
(* was handed back into tmp_clip.tif (lines 27-29), opens that file, and   *)
(* creates tmp_feet.tif, replacing whatever file had that name.            *)
(***************************************************************************)
TransformToFeet(t) ==
    /\ pc[t] = "clipped"
    /\ Enter(t, "transform_to_feet")
    /\ IF ~dirExists
       THEN Raise(t) /\ UNCHANGED <<fs, frame, writes>>
       ELSE LET fs1 == [fs EXCEPT !["tmp_clip.tif"] = frame[t].clipped_dem_data]
                input_ds == fs1["tmp_clip.tif"]
                w1  == Wrote(t, "tmp_clip.tif", "transform_to_feet")
                out == Bytes("feet", run[t], input_ds.origin)
            IN  IF ~IsRaster(input_ds)
                THEN /\ Raise(t)
                     /\ fs' = fs1
                     /\ writes' = w1
                     /\ UNCHANGED frame
                ELSE /\ fs' = [fs1 EXCEPT !["tmp_feet.tif"] = out]
                     /\ writes' = [w1 EXCEPT ![t]["tmp_feet.tif"] =
                                      Append(@, "transform_to_feet")]
                     /\ frame' = [frame EXCEPT ![t].clipped_dem_feet_data = out]
                     /\ pc' = [pc EXCEPT ![t] = "converted"]
                     /\ UNCHANGED response
    /\ UNCHANGED <<dirExists, nextRun, run, toolFailed, overlapped, rvars>>

(***************************************************************************)
(* generate_contours, lines 63-84.  The raster is read from tmp_feet.tif,  *)
(* not from the argument.                                                  *)
(***************************************************************************)
GenerateContours(t) ==
    /\ pc[t] = "converted"
    /\ Enter(t, "generate_contours")
    /\ LET input_ds == fs["tmp_feet.tif"]
           out == Bytes("shp", run[t], input_ds.origin)
       IN  IF ~IsRaster(input_ds)
           THEN Raise(t) /\ UNCHANGED <<fs, frame, writes>>
           ELSE /\ fs' = [fs EXCEPT !["tmp_contours.shp"] = out]
                /\ writes' = Wrote(t, "tmp_contours.shp", "generate_contours")
                /\ frame' = [frame EXCEPT ![t].contour_shp_data = out]
                /\ pc' = [pc EXCEPT ![t] = "contoured"]
                /\ UNCHANGED response
    /\ UNCHANGED <<dirExists, nextRun, run, toolFailed, overlapped, rvars>>

(***************************************************************************)
(* convert_shapefile_to_dxf, lines 86-93.  As in clip_raster the status of *)
(* ogr2ogr is not looked at.                                               *)
(***************************************************************************)
ConvertShapefileToDxf(t) ==
    /\ pc[t] = "contoured"
    /\ \E status \in {0, 1} :
        LET shp == fs["tmp_contours.shp"]
            fs1 == IF status = 0
                   THEN [fs EXCEPT !["tmp_contours.dxf"] =
                            Bytes("dxf", run[t], shp.origin)]
                   ELSE fs
        IN  /\ status = 0 => shp.kind = "shp"
            /\ fs' = fs1
            /\ toolFailed' = IF status = 0 THEN toolFailed
                             ELSE [toolFailed EXCEPT ![t] =
                                      @ \cup {"convert_shapefile_to_dxf"}]
            /\ writes' = IF status = 0
                         THEN Wrote(t, "tmp_contours.dxf",
                                    "convert_shapefile_to_dxf")
                         ELSE writes
            /\ Enter(t, "convert_shapefile_to_dxf")
            /\ IF fs1["tmp_contours.dxf"] = Absent
               THEN Raise(t) /\ UNCHANGED frame
               ELSE /\ frame' = [frame EXCEPT ![t].dxf_data =
                                    fs1["tmp_contours.dxf"]]
                    /\ pc' = [pc EXCEPT ![t] = "exported"]
                    /\ UNCHANGED response
    /\ UNCHANGED <<dirExists, nextRun, run, overlapped, rvars>>

(***************************************************************************)
(* raster_to_points, lines 95-116.  The raster is read from tmp_clip.tif,  *)
(* not from the argument.                                                  *)
(***************************************************************************)
RasterToPoints(t) ==
    /\ pc[t] = "exported"
    /\ Enter(t, "raster_to_points")
    /\ LET input_ds == fs["tmp_clip.tif"]
           out == Bytes("csv", run[t], input_ds.origin)
       IN  IF ~IsRaster(input_ds)
           THEN Raise(t) /\ UNCHANGED <<fs, frame, writes>>
           ELSE /\ fs' = [fs EXCEPT !["tmp_points.csv"] = out]
                /\ writes' = Wrote(t, "tmp_points.csv", "raster_to_points")
                /\ frame' = [frame EXCEPT ![t].csv_data = out]
                /\ pc' = [pc EXCEPT ![t] = "sampled"]
                /\ UNCHANGED response
    /\ UNCHANGED <<dirExists, nextRun, run, toolFailed, overlapped, rvars>>

(***************************************************************************)
(* A stage raises before it has written anything (an I/O error, a tool     *)
(* that cannot be started, a raster the library cannot process).           *)
(***************************************************************************)
StageAt(p) ==
    CASE p = "saved"     -> "clip_raster"
      [] p = "clipped"   -> "transform_to_feet"
      [] p = "converted" -> "generate_contours"
      [] p = "contoured" -> "convert_shapefile_to_dxf"
      [] p = "exported"  -> "raster_to_points"

StageRaises(t) ==
    /\ pc[t] \in {"saved", "clipped", "converted", "contoured", "exported"}
    /\ Enter(t, StageAt(pc[t]))
    /\ Raise(t)
    /\ UNCHANGED <<fs, dirExists, nextRun, run, frame, toolFailed, writes,
                   overlapped, rvars>>

(***************************************************************************)
(* upload(), lines 148-163: the zip is built in memory, then every regular *)
(* file listed in the scratch directory is removed.                        *)
(***************************************************************************)
ZipAndRemove(t) ==
    /\ pc[t] = "sampled"
    /\ frame' = [frame EXCEPT ![t].zip_buffer = ZipEntries(frame[t])]
    /\ IF ~dirExists
       THEN Raise(t) /\ UNCHANGED fs
       ELSE /\ fs' = [f \in FileNames |-> Absent]
            /\ pc' = [pc EXCEPT ![t] = "removed"]
            /\ UNCHANGED response
    /\ UNCHANGED <<dirExists, nextRun, run, executed, toolFailed, writes,
                   overlapped, rvars>>

(***************************************************************************)
(* upload(), lines 164-171: os.rmdir raises unless the directory exists    *)
(* and is empty; then the zip is sent.                                     *)
(***************************************************************************)
RmdirAndSend(t) ==
    /\ pc[t] = "removed"
    /\ IF ~dirExists \/ (\E f \in FileNames : fs[f] # Absent)
       THEN Raise(t) /\ UNCHANGED dirExists
       ELSE /\ dirExists' = FALSE
            /\ pc' = [pc EXCEPT ![t] = "done"]
            /\ response' = [response EXCEPT ![t] =
                               [status |-> "ok",
                                bundle |-> frame[t].zip_buffer]]
    /\ UNCHANGED <<fs, nextRun, run, frame, executed, toolFailed, writes,
                   overlapped, rvars>>

Next ==
    \E t \in Threads :
        \/ \E dn \in DemNames, kn \in KmlNames : Save(t, dn, kn)
        \/ ClipRaster(t)
        \/ TransformToFeet(t)
        \/ GenerateContours(t)
        \/ ConvertShapefileToDxf(t)
        \/ RasterToPoints(t)
        \/ StageRaises(t)
        \/ ZipAndRemove(t)
        \/ RmdirAndSend(t)

Spec == Init /\ [][Next]_vars

(***************************************************************************)
(* SpecRaster.                                                             *)
(*                                                                         *)
(* A raster is what gdal.Open gives the stages: its size, its geotransform *)
(* its no-data value and its band as array[y][x].  A number n of the model *)
(* stands for n / Scale, in the input as in the output; the rounding of    *)
(* the Float32 output band below 1 / Scale is not modelled.                *)
(***************************************************************************)
MaxXSize == 2

MaxYSize == 2

Scale == 100000

\* 3.28084, line 39, as a fixed-point number.
FeetFactor == 328084

\* -99, 0 and 2 (metres).
CellValues == {(0 - 99) * Scale, 0, 2 * Scale}

NoDataValues == {(0 - 99) * Scale, 0}

\* North-up and rotated.
GeoTransforms == {<<100, 10, 0, 500, 0, 0 - 10>>, <<7, 2, 1, 9, 3, 0 - 2>>}

RastersOfSize(w, h) ==
    [readable : {TRUE}, XSize : {w}, YSize : {h}, gt : GeoTransforms,
     nodata : NoDataValues,
     array : [0..(h - 1) -> [0..(w - 1) -> CellValues]]]

\* A file gdal.Open cannot read: it returns None.
Unreadable ==
    [readable |-> FALSE, XSize |-> 0, YSize |-> 0,
     gt |-> <<0, 0, 0, 0, 0, 0>>, nodata |-> 0, array |-> <<>>]

Rasters ==
    UNION {RastersOfSize(w, h) : w \in 1..MaxXSize, h \in 1..MaxYSize}

Header == <<"X", "Y", "Z">>

\* masked_equal that masks nothing: the no-data cells are converted too.
masked_equal_nothing(array, value) ==
    [y \in DOMAIN array |-> [x \in DOMAIN array[y] |-> FALSE]]

\* np.ma.masked_equal(dem_array, nodata_value), line 36: the mask.
masked_equal(array, value) ==
    [y \in DOMAIN array |-> [x \in DOMAIN array[y] |-> array[y][x] = value]]

\* v * 3.28084 on fixed-point numbers, exact when v is a multiple of 0.5.
MulFeet(v) ==
    (v \div Scale) * FeetFactor + ((v % Scale) * FeetFactor) \div Scale

\* dem_array * 3.28084 on a masked array, line 39: masked cells keep their
\* data and their mask.
masked_multiply(array, mask) ==
    [y \in DOMAIN array |->
        [x \in DOMAIN array[y] |->
            IF mask[y][x] THEN array[y][x] ELSE MulFeet(array[y][x])]]

\* dem_array_feet.filled(nodata_value), line 43.
filled(array, mask, fill_value) ==
    [y \in DOMAIN array |->
        [x \in DOMAIN array[y] |->
            IF mask[y][x] THEN fill_value ELSE array[y][x]]]

\* transform_to_feet, lines 30-56: the dataset written to tmp_feet.tif.
transform_to_feet(input_ds) ==
    LET dem_array      == input_ds.array
        nodata_value   == input_ds.nodata
        mask           == masked_equal(dem_array, nodata_value)
        dem_array_feet == filled(masked_multiply(dem_array, mask), mask,
                                 nodata_value)
    IN  [readable |-> TRUE, XSize |-> input_ds.XSize,
         YSize |-> input_ds.YSize, gt |-> input_ds.gt,
         nodata |-> nodata_value, array |-> dem_array_feet]

\* IsData without the comparison: every cell is written.
IsData_always(value, nodata) == TRUE

\* value != nodata, line 108.
IsData(value, nodata) == value # nodata

\* Lines 109-111: the record written for cell (x, y).
PointRecord(gt, x, y, value) ==
    << gt[1] + x * gt[2] + y * gt[3], gt[4] + x * gt[5] + y * gt[6], value >>

\* for x in range(band.XSize), lines 106-111, from column x on.
RECURSIVE InnerLoop(_, _, _)
InnerLoop(ds, y, x) ==
    IF x >= ds.XSize THEN <<>>
    ELSE LET value == ds.array[y][x]
         IN  (IF IsData(value, ds.nodata)
              THEN <<PointRecord(ds.gt, x, y, value)>> ELSE <<>>)
             \o InnerLoop(ds, y, x + 1)

\* for y in range(band.YSize), lines 105-111, from row y on.
RECURSIVE OuterLoop(_, _)
OuterLoop(ds, y) ==
    IF y >= ds.YSize THEN <<>>
    ELSE InnerLoop(ds, y, 0) \o OuterLoop(ds, y + 1)

\* raster_to_points with the loops exchanged: columns outside, rows inside.
RECURSIVE ColumnLoop(_, _, _)
ColumnLoop(ds, x, y) ==
    IF y >= ds.YSize THEN <<>>
    ELSE LET value == ds.array[y][x]
         IN  (IF IsData(value, ds.nodata)
              THEN <<PointRecord(ds.gt, x, y, value)>> ELSE <<>>)
             \o ColumnLoop(ds, x, y + 1)

RECURSIVE ColumnsLoop(_, _)
ColumnsLoop(ds, x) ==
    IF x >= ds.XSize THEN <<>>
    ELSE ColumnLoop(ds, x, 0) \o ColumnsLoop(ds, x + 1)

raster_to_points_column_major(input_ds) ==
    <<Header>> \o ColumnsLoop(input_ds, 0)

\* raster_to_points, lines 103-111: the lines of tmp_points.csv.
raster_to_points(input_ds) == <<Header>> \o OuterLoop(input_ds, 0)

RasterInit ==
    /\ raster_in \in Rasters \cup {Unreadable}
    /\ raster_feet = Unreadable
    /\ points_csv = <<>>
    /\ rstage = "clipped"

\* upload() line 143 on the raster of tmp_clip.tif.
RasterTransform ==
    /\ rstage = "clipped"
    /\ IF ~raster_in.readable
       THEN rstage' = "failed" /\ UNCHANGED raster_feet
       ELSE /\ raster_feet' = transform_to_feet(raster_in)
            /\ rstage' = "converted"
    /\ UNCHANGED <<raster_in, points_csv, ovars>>

\* upload() line 146 on the raster of tmp_clip.tif.
RasterSample ==
    /\ rstage = "converted"
    /\ points_csv' = raster_to_points(raster_in)
    /\ rstage' = "sampled"
    /\ UNCHANGED <<raster_in, raster_feet, ovars>>

InitRaster == OrchestrationIdle /\ RasterInit

NextRaster == RasterTransform \/ RasterSample

SpecRaster == InitRaster /\ [][NextRaster]_vars

(***************************************************************************)
(* Properties of Spec.                                                     *)
(***************************************************************************)
Terminal(t) == pc[t] \in {"done", "failed"}

\* The file each stage after the first reads its input from.
Reads(stage) ==
    CASE stage = "transform_to_feet"        -> "tmp_clip.tif"
      [] stage = "generate_contours"        -> "tmp_feet.tif"
      [] stage = "convert_shapefile_to_dxf" -> "tmp_contours.shp"
      [] stage = "raster_to_points"         -> "tmp_clip.tif"

WrittenBy(t, f, stage) == \E i \in DOMAIN writes[t][f] : writes[t][f][i] = stage

IsPrefix(s, q) == Len(s) <= Len(q) /\ \A i \in DOMAIN s : s[i] = q[i]

\* C1: once a run that no other run overlapped has ended, with a response
\* or with a failure in any stage, no file that the run wrote is left in
\* the scratch directory.
C1_NoFilesAfterRun ==
    \A t \in Threads :
        (Terminal(t) /\ ~overlapped[t]) =>
            \A f \in FileNames : fs[f] = Absent \/ fs[f].writer # run[t]

\* C2: when the external tool of a stage returns a non-zero status the run
\* fails at that stage: no later stage is entered and no bundle is sent
\* (stated for the runs that no other run overlapped).
C2_FailFast ==
    \A t \in Threads :
        ~overlapped[t] =>
            \A s \in toolFailed[t] :
                /\ pc[t] = "failed"
                /\ executed[t][Len(executed[t])] = s
                /\ response[t].status # "ok"

\* C3 (order): the stages of a run are entered in the order clip_raster,
\* transform_to_feet, generate_contours, convert_shapefile_to_dxf,
\* raster_to_points.
C3_StagesInOrder == \A t \in Threads : IsPrefix(executed[t], StageNames)

\* C3 (join): a bundle is assembled and sent only when all five stages have
\* returned.
C3_DoneAfterBothBranches ==
    \A t \in Threads :
        (pc[t] \in {"sampled", "removed", "done"} \/ response[t].status = "ok")
            => executed[t] = StageNames

\* C3: the stages are entered in pipeline order, every stage after the
\* first is entered only after the file it reads was written by the stage
\* that produces it in the same run, and the bundle is assembled only after
\* all five stages (the second part stated for the runs that no other run
\* overlapped).
C3_StageOrder ==
    /\ C3_StagesInOrder
    /\ C3_DoneAfterBothBranches
    /\ \A t \in Threads :
           ~overlapped[t] =>
               \A i \in DOMAIN executed[t] :
                   i > 1 => WrittenBy(t, Reads(executed[t][i]),
                                      Producer(Reads(executed[t][i])))

\* C4: two runs in flight at the same time have different scratch
\* directories.
C4_ExclusiveWorkspace ==
    \A t, u \in Threads :
        (t # u /\ Active(t) /\ Active(u)) =>
            frame[t].temp_dir # frame[u].temp_dir

\* C8: within a run every intermediate file is written at most once, and
\* only by the stage that produces it.
C8_SingleWriter ==
    \A t \in Threads :
        \A f \in IntermediateFiles :
            /\ Len(writes[t][f]) <= 1
            /\ \A i \in DOMAIN writes[t][f] : writes[t][f][i] = Producer(f)

BundleStems ==
    <<"clipped_dem", "clipped_dem_feet", "contours-shape-file", "contours",
      "pvsyst_shading_file">>

BundleKinds == <<"clip", "feet", "shp", "dxf", "csv">>

\* C9: every bundle sent holds exactly five entries, named clipped_dem,
\* clipped_dem_feet, contours-shape-file, contours and pvsyst_shading_file
\* in this order, and each entry holds the bytes returned by its stage
\* (clip_raster, transform_to_feet, generate_contours,
\* convert_shapefile_to_dxf, raster_to_points).
C9_BundleOfFive ==
    \A t \in Threads :
        response[t].status = "ok" =>
            LET b == response[t].bundle
                f == frame[t]
                returned == <<f.clipped_dem_data, f.clipped_dem_feet_data,
                              f.contour_shp_data, f.dxf_data, f.csv_data>>
            IN  /\ Len(b) = 5
                /\ \A i \in 1..5 :
                       /\ b[i].stem = BundleStems[i]
                       /\ b[i].data = returned[i]
                       /\ b[i].data.kind = BundleKinds[i]

C9_Witness ==
    \E t \in Threads : pc[t] = "done" /\ response[t].status = "ok"

\* C10: in a run that no other run overlapped, every entry of the bundle
\* sent was produced by that run from that run's own uploads.
C10_OwnArtifacts ==
    \A t \in Threads :
        (response[t].status = "ok" /\ ~overlapped[t]) =>
            \A i \in DOMAIN response[t].bundle :
                /\ response[t].bundle[i].data.writer = run[t]
                /\ response[t].bundle[i].data.origin = {run[t]}

(***************************************************************************)
(* Properties of SpecRaster.                                               *)
(***************************************************************************)
Cells(ds) == (0..(ds.XSize - 1)) \X (0..(ds.YSize - 1))

ValidCells(ds) == {c \in Cells(ds) : ds.array[c[2]][c[1]] # ds.nodata}

\* A readable raster with a no-data cell and a valid cell that is not 0.
MixedRaster(ds) ==
    /\ ds.readable
    /\ \E c \in Cells(ds) : ds.array[c[2]][c[1]] = ds.nodata
    /\ \E c \in ValidCells(ds) : ds.array[c[2]][c[1]] # 0

\* C5: transform_to_feet of a readable raster does not fail; its output has
\* the size and the no-data value of the input, a no-data cell keeps the
\* no-data value and every other cell holds the input value times 3.28084
\* (so an input without valid cells gives an all-no-data output).
C5_TransformToFeet ==
    /\ raster_in.readable => rstage # "failed"
    /\ rstage \in {"converted", "sampled"} =>
        /\ raster_feet.XSize = raster_in.XSize
        /\ raster_feet.YSize = raster_in.YSize
        /\ raster_feet.nodata = raster_in.nodata
        /\ DOMAIN raster_feet.array = 0..(raster_in.YSize - 1)
        /\ \A y \in 0..(raster_in.YSize - 1) :
               /\ DOMAIN raster_feet.array[y] = 0..(raster_in.XSize - 1)
               /\ \A x \in 0..(raster_in.XSize - 1) :
                      LET v == raster_in.array[y][x]
                      IN  /\ v % Scale = 0
                          /\ raster_feet.array[y][x] =
                                 IF v = raster_in.nodata
                                 THEN raster_in.nodata
                                 ELSE (v \div Scale) * FeetFactor

C5_Witness == rstage = "converted" /\ MixedRaster(raster_in)

\* C6: the lines of the point file are the header X,Y,Z followed by as many
\* records as the raster has cells that differ from its no-data value (none
\* when every cell is no-data).
C6_RecordCount ==
    rstage = "sampled" =>
        /\ Head(points_csv) = Header
        /\ Len(points_csv) - 1 = Cardinality(ValidCells(raster_in))

C6_Witness ==
    /\ rstage = "sampled"
    /\ MixedRaster(raster_in)
    /\ Len(points_csv) > 1

\* C7: the records follow the cells in row-major order (y outside, x
\* inside), and the record of a valid cell (x, y) is
\* (gt0 + x*gt1 + y*gt2, gt3 + x*gt4 + y*gt5, value) with the geotransform
\* and the value of the raster in tmp_clip.tif, not of the converted one.
C7_RowMajorRecords ==
    rstage = "sampled" =>
        LET ds == raster_in
            w  == ds.XSize
            index == [i \in 1..(w * ds.YSize) |-> i - 1]
            Valid(i) == ds.array[i \div w][i % w] # ds.nodata
            kept == SelectSeq(index, Valid)
        IN  /\ Len(points_csv) = Len(kept) + 1
            /\ \A k \in 1..Len(kept) :
                   LET x == kept[k] % w
                       y == kept[k] \div w
                   IN  points_csv[k + 1] =
                           << ds.gt[1] + x * ds.gt[2] + y * ds.gt[3],
                              ds.gt[4] + x * ds.gt[5] + y * ds.gt[6],
                              ds.array[y][x] >>

C7_Witness ==
    /\ rstage = "sampled"
    /\ raster_in.XSize = 2
    /\ raster_in.YSize = 2
    /\ Len(points_csv) >= 3
    /\ \E c \in ValidCells(raster_in) :
           raster_feet.array[c[2]][c[1]] # raster_in.array[c[2]][c[1]]

====
